---- MODULE Spec2Model ----
(***************************************************************************)
(* Daily stock scan (src/main.py): main() loads the ticker list, fetches   *)
(* the price frame, computes one signal record per ticker with enough      *)
(* history, ranks the records, exports the reports and mails them; any     *)
(* exception is turned into an error report and a failure mail.            *)
(*                                                                         *)
(* Numbers.  Close and Volume values are integers.  A pandas cell is a     *)
(* sequence: << >> is NaN, <<v>> is the value v.  A rolling mean is kept   *)
(* as the exact fraction num/den and compared by cross-multiplication.     *)
(* A percentage rounded to 2 decimals is kept as an integer number of      *)
(* hundredths, a price rounded to 4 decimals as an integer number of       *)
(* ten-thousandths; None is << >>.  A division by zero gives what numpy    *)
(* gives: 0 / 0 is NaN, and x / 0 is an infinity, kept as the pair         *)
(* <<1, 0>> or <<-1, 0>> of its sign and 0.  The percentages are computed  *)
(* in doubles before round(): where the exact quotient is halfway between  *)
(* two hundredths the double arithmetic is carried out bit for bit,        *)
(* because its error decides the rounding.                                 *)
(***************************************************************************)
EXTENDS Integers, Sequences, FiniteSets, TLC

\* Number of dates (rows) of the downloaded frame.
NumDates == 61

\* len(close) < 60
MinBars == 60
\* close.rolling(5), close.rolling(20), close.rolling(60), vol.rolling(20)
ShortWindow == 5
MidWindow == 20
LongWindow == 60
VolWindow == 20
\* vol.iloc[-1] > 1.5 * vol20.iloc[-1], the factor 1.5 as SpikeNum / SpikeDen
SpikeNum == 3
SpikeDen == 2
\* round(x, 2) of a percentage, round(price, 4)
PctDigits == 2
PriceDigits == 4

NaN == << >>
None == << >>
Some(v) == <<v>>
IsNaN(cell) == cell = << >>
\* float('inf') and float('-inf')
Inf(positive) == IF positive THEN <<1, 0>> ELSE <<-1, 0>>
IsInf(cell) == Len(cell) = 2

Dates == 1..NumDates

Neg(a) == 0 - a
Abs(a) == IF a < 0 THEN Neg(a) ELSE a

Pow10(n) == IF n = 0 THEN 1 ELSE IF n = 1 THEN 10 ELSE IF n = 2 THEN 100
            ELSE IF n = 3 THEN 1000 ELSE 10000

\* floor(a / b) for b > 0
FloorDiv(a, b) == a \div b

(***************************************************************************)
(* IEEE 754 binary64 arithmetic, as Python's float and numpy's float64     *)
(* compute it.  A natural number is a little-endian sequence of limbs in   *)
(* base 2^15 without leading zero limb; a double is sign, mantissa         *)
(* (a natural below 2^53, or 2^53 itself) and binary exponent.             *)
(***************************************************************************)
LimbBits == 15
Base == 2 ^ LimbBits
MantBits == 53

Limb(a, i) == IF i \in 1..Len(a) THEN a[i] ELSE 0

\* a without its leading zero limbs
Trim(a) ==
    LET nz == {i \in 1..Len(a) : a[i] # 0}
    IN  IF nz = {} THEN << >>
        ELSE SubSeq(a, 1, CHOOSE i \in nz : \A j \in nz : j <= i)

\* The natural n < 2^31, and back.
Big(n) == Trim(<<n % Base, (n \div Base) % Base, n \div (Base * Base)>>)
ToInt(a) == Limb(a, 1) + Base * Limb(a, 2) + Base * Base * Limb(a, 3)

\* -1, 0 or 1 as a < b, a = b or a > b
Cmp(a, b) ==
    IF Len(a) # Len(b) THEN (IF Len(a) < Len(b) THEN -1 ELSE 1)
    ELSE LET D == {i \in 1..Len(a) : a[i] # b[i]}
         IN  IF D = {} THEN 0
             ELSE LET i == CHOOSE k \in D : \A j \in D : j <= k
                  IN  IF a[i] < b[i] THEN -1 ELSE 1

\* Whether a + b carries into limb i: some lower limb overflows and every
\* limb between passes the carry on.
Carry(a, b, i) ==
    \E j \in 1..(i - 1) :
        /\ Limb(a, j) + Limb(b, j) >= Base
        /\ \A k \in (j + 1)..(i - 1) : Limb(a, k) + Limb(b, k) = Base - 1

Add(a, b) ==
    LET n == (IF Len(a) > Len(b) THEN Len(a) ELSE Len(b)) + 1
    IN  Trim([i \in 1..n |->
                (Limb(a, i) + Limb(b, i) + (IF Carry(a, b, i) THEN 1 ELSE 0)) % Base])

\* Whether a - b borrows from limb i.
Borrow(a, b, i) ==
    \E j \in 1..(i - 1) :
        /\ Limb(a, j) < Limb(b, j)
        /\ \A k \in (j + 1)..(i - 1) : Limb(a, k) = Limb(b, k)

\* a - b for a >= b
Sub(a, b) ==
    Trim([i \in 1..Len(a) |->
            (Limb(a, i) - Limb(b, i) - (IF Borrow(a, b, i) THEN 1 ELSE 0)) % Base])

\* a * k for 0 <= k < Base: the low halves of the limb products plus their
\* high halves one limb up.
MulSmall(a, k) ==
    Add(<< >> \o [i \in 1..Len(a) |-> (a[i] * k) % Base],
        <<0>> \o [i \in 1..Len(a) |-> (a[i] * k) \div Base])

\* a * 2^s and floor(a / 2^s)
Shl(a, s) ==
    LET q == s \div LimbBits
        r == s % LimbBits
    IN  Trim([i \in 1..(Len(a) + q + 1) |->
                ((Limb(a, i - q) * (2 ^ r)) % Base)
                + (Limb(a, i - q - 1) \div (2 ^ (LimbBits - r)))])
Shr(a, s) ==
    LET q == s \div LimbBits
        r == s % LimbBits
    IN  Trim([i \in 1..(Len(a) - q) |->
                (Limb(a, i + q) \div (2 ^ r))
                + (Limb(a, i + q + 1) % (2 ^ r)) * (2 ^ (LimbBits - r))])

BitLen(a) ==
    IF a = << >> THEN 0
    ELSE (Len(a) - 1) * LimbBits
         + (CHOOSE n \in 1..LimbBits : 2 ^ (n - 1) <= a[Len(a)] /\ a[Len(a)] < 2 ^ n)

\* The element of a singleton set.  Only({F(w) : w \in {v}}) is F(v) with w
\* bound to the value of v, so that a chain of operations is carried out one
\* operation after the other.
Only(S) == CHOOSE r \in S : TRUE

\* The quotient digit floor(cur / d) for cur < Base * d, where the top limb
\* of d is at least Base / 2: the quotient of the leading limbs is at most
\* 2 too large.
Digit(cur, d) ==
    LET n   == Len(d)
        est == (Limb(cur, n + 1) * Base + Limb(cur, n)) \div d[n]
        hat == IF est < Base THEN est ELSE Base - 1
    IN  IF Cmp(MulSmall(d, hat), cur) <= 0 THEN hat
        ELSE IF Cmp(MulSmall(d, hat - 1), cur) <= 0 THEN hat - 1
        ELSE hat - 2

\* One step of the long division of a by d: the limb a[st.i] is brought
\* down to the remainder st.r and gives the next quotient digit.
DivStep(a, d, st) ==
    Only({Only({Only({[i |-> st.i - 1, q |-> <<qd>> \o st.q, r |-> Sub(cur, p)] :
                        p \in {MulSmall(d, qd)}}) :
                  qd \in {Digit(cur, d)}}) :
            cur \in {Trim(<<a[st.i]>> \o st.r)}})

RECURSIVE DivLoop(_, _, _)
DivLoop(a, d, st) ==
    IF st.i = 0 THEN [q |-> Trim(st.q), r |-> st.r]
    ELSE DivLoop(a, d, DivStep(a, d, st))

\* Quotient and remainder of a by d, the top limb of d at least Base / 2.
\* The leading Len(d) - 1 limbs of a are below d and start as the remainder.
DivMod(a, d) ==
    IF Len(a) < Len(d) THEN [q |-> << >>, r |-> a]
    ELSE DivLoop(a, d, [i |-> Len(a) - Len(d) + 1, q |-> << >>,
                        r |-> Trim(SubSeq(a, Len(a) - Len(d) + 2, Len(a)))])

\* Bit i of a, the lowest being bit 0.
Bit(a, i) == (Limb(a, (i \div LimbBits) + 1) \div (2 ^ (i % LimbBits))) % 2

\* Whether n / 2^d (d >= 1), with something more behind n when sticky,
\* rounds up from floor(n / 2^d): to nearest, a tie to even.
RoundsUp(n, d, sticky) ==
    /\ Bit(n, d - 1) = 1
    /\ \/ sticky
       \/ \E j \in 0..(d - 2) : Bit(n, j) = 1
       \/ Bit(n, d) = 1

\* The double nearest to (-1)^neg * (n + sticky) * 2^e.
RoundBig(neg, n, e, sticky) ==
    LET d == BitLen(n) - MantBits
    IN  IF d <= 0 THEN [neg |-> neg, m |-> n, e |-> e]
        ELSE [neg |-> neg,
              m   |-> IF RoundsUp(n, d, sticky) THEN Add(Shr(n, d), Big(1)) ELSE Shr(n, d),
              e   |-> e + d]

\* float(n)
FromInt(n) == [neg |-> n < 0, m |-> Big(IF n < 0 THEN 0 - n ELSE n), e |-> 0]

\* x / y for y # 0.  Both are scaled by 2^k to bring the top limb of the
\* divisor to Base / 2 or more, and x by 2^s to give the quotient two bits
\* more than a mantissa.
FDiv(x, y) ==
    LET want == MantBits + 2 + BitLen(y.m) - BitLen(x.m)
        s    == IF want > 0 THEN want ELSE 0
        k    == (LimbBits - (BitLen(y.m) % LimbBits)) % LimbBits
    IN  Only({RoundBig(x.neg # y.neg, dm.q, x.e - y.e - s, dm.r # << >>) :
                dm \in {DivMod(Shl(x.m, s + k), Shl(y.m, k))}})

\* x - 1
FSubOne(x) ==
    LET e0  == IF x.e < 0 THEN x.e ELSE 0
        xm  == Shl(x.m, x.e - e0)
        one == Shl(Big(1), 0 - e0)
    IN  IF x.neg THEN Only({RoundBig(TRUE, n, e0, FALSE) : n \in {Add(xm, one)}})
        ELSE IF Cmp(xm, one) >= 0
             THEN Only({RoundBig(FALSE, n, e0, FALSE) : n \in {Sub(xm, one)}})
             ELSE Only({RoundBig(TRUE, n, e0, FALSE) : n \in {Sub(one, xm)}})

\* x * k for an integer 0 < k < Base
FMulInt(x, k) == Only({RoundBig(x.neg, n, x.e, FALSE) : n \in {MulSmall(x.m, k)}})

\* (q - 1) * 100
FPercent(q) == Only({FMulInt(v, 100) : v \in {FSubOne(q)}})

\* round(x, digits) in units of 10^-digits: the decimal nearest to the
\* double's exact value, a tie going to the even one.
FRound(x, digits) ==
    LET n   == MulSmall(x.m, Pow10(digits))
        mag == IF x.e >= 0 THEN ToInt(Shl(n, x.e))
               ELSE ToInt(Shr(n, 0 - x.e))
                    + (IF RoundsUp(n, 0 - x.e, FALSE) THEN 1 ELSE 0)
    IN  IF x.neg THEN 0 - mag ELSE mag

\* Whether a / b (b > 0) lies exactly halfway between two integers.
Halfway(a, b) == 2 * (a % b) = b

\* The integer nearest to a / b (b > 0) when a / b is not halfway.
RoundNearest(a, b) ==
    LET q == FloorDiv(a, b)
    IN  IF 2 * (a - q * b) < b THEN q ELSE q + 1

\* round(x, digits) in units of 10^-digits, for the double x that the code
\* computes for the exact quotient a / b (b > 0).  x is within 2^-30 of
\* a / b, and a / b with a denominator below 2^20 is either halfway between
\* two decimals or further than that from halfway; so x rounds as a / b
\* does, except at halfway, where the double itself decides.
Round(x, a, b, digits) ==
    IF Halfway(a * Pow10(digits), b) THEN FRound(x, digits)
    ELSE RoundNearest(a * Pow10(digits), b)

(***************************************************************************)
(* pandas: Series.dropna(), Series.rolling(window).mean()                  *)
(***************************************************************************)
RECURSIVE DropnaRange(_, _, _)
\* The non-NaN cells among the dates lo..hi, in date order, each with its date.
DropnaRange(col, lo, hi) ==
    IF lo > hi THEN << >>
    ELSE IF lo = hi
         THEN (IF IsNaN(col[lo]) THEN << >>
               ELSE <<[date |-> lo, value |-> col[lo][1]]>>)
         ELSE LET mid == (lo + hi) \div 2
              IN  DropnaRange(col, lo, mid) \o DropnaRange(col, mid + 1, hi)

dropna(col) == DropnaRange(col, 1, NumDates)

RECURSIVE RunningTotals(_, _, _)
\* The running totals s[lo] + ... + s[k] for k = lo..hi.
RunningTotals(s, lo, hi) ==
    IF lo > hi THEN << >>
    ELSE IF lo = hi THEN <<s[lo].value>>
    ELSE LET mid   == (lo + hi) \div 2
             left  == RunningTotals(s, lo, mid)
             right == RunningTotals(s, mid + 1, hi)
         IN  left \o [k \in 1..Len(right) |-> right[k] + left[Len(left)]]

\* Variant: min_periods = 1, a partial window averaged.
rolling_meanPartial(s, window) ==
    LET total == RunningTotals(s, 1, Len(s))
    IN  [i \in 1..Len(s) |->
            IF i < window THEN Some([num |-> total[i], den |-> i])
            ELSE Some([num |-> total[i] - (IF i > window THEN total[i - window] ELSE 0),
                       den |-> window])]

\* rolling(window).mean() with min_periods = window.  The sliding window
\* holds at position i everything added up to i less everything removed up
\* to i - window, over `window` observations; a position with fewer than
\* `window` observations at or before it is NaN.
rolling_mean(s, window) ==
    LET total == RunningTotals(s, 1, Len(s))
    IN  [i \in 1..Len(s) |->
            IF i < window THEN NaN
            ELSE Some([num |-> total[i] - (IF i > window THEN total[i - window] ELSE 0),
                       den |-> window])]

\* Variant: the comparison not strict.
LtOrEqual(a, b) == /\ ~IsNaN(a)
                   /\ ~IsNaN(b)
                   /\ a[1].num * b[1].den <= b[1].num * a[1].den

\* Comparisons of two cells holding fractions; a comparison with NaN is False.
Lt(a, b) == /\ ~IsNaN(a)
            /\ ~IsNaN(b)
            /\ a[1].num * b[1].den < b[1].num * a[1].den
Gt(a, b) == Lt(b, a)

\* s.iloc[-k]
ILoc(s, k) == s[Len(s) + 1 - k]

(***************************************************************************)
(* The frame returned by yf.download.  With group_by='ticker' the columns  *)
(* are (ticker, field) pairs: `columns` lists the tickers in the order     *)
(* their Close columns appear, Close[t] and Volume[t] are the two columns  *)
(* of t over the shared date index.  A flat frame (is_multi = FALSE) has   *)
(* one Close and one Volume column, kept under the engine's name SINGLE.   *)
(***************************************************************************)
\* Ticker identifiers in ascending string order, as sorted() orders them.
Names == <<"1101.TW", "2330.TW", "2454.TW", "SINGLE">>
Rank(t) == CHOOSE i \in 1..Len(Names) : Names[i] = t

\* A column holding the values `vals` on consecutive dates, the remaining
\* dates NaN: at the end of the index (a ticker listed late) or at its start
\* (a ticker whose last dates are missing).
Column(vals, atEnd) ==
    LET off == IF atEnd THEN NumDates - Len(vals) ELSE 0
    IN  [d \in Dates |-> IF d - off \in 1..Len(vals) THEN Some(vals[d - off]) ELSE NaN]

\* k closing prices: an old outlier first, a flat stretch, then the last two.
Closes(k, x, y) ==
    [i \in 1..k |-> IF i = k THEN y ELSE IF i = k - 1 THEN x
                    ELSE IF i = 1 THEN 40 ELSE 10]
\* k volumes: an old outlier first, a flat stretch, then the last one.
Volumes(k, w) ==
    [i \in 1..k |-> IF i = k THEN w ELSE IF i = 1 THEN 900 ELSE 37]

\* k closing prices: a level stretch, then the last one.
Level(k, c, y) == [i \in 1..k |-> IF i = k THEN y ELSE c]

CrossUp == <<9, 12>>
TouchLast == <<9, 11>>
TouchPrev == <<10, 12>>
Flat == <<10, 10>>
Down == <<12, 9>>

CloseColumn(k, tail, atEnd) == Column(Closes(k, tail[1], tail[2]), atEnd)

CloseColumns ==
    {CloseColumn(2, Flat, TRUE), CloseColumn(MinBars - 1, CrossUp, TRUE),
     CloseColumn(MinBars, CrossUp, FALSE)}
    \cup {CloseColumn(MinBars, tail, TRUE) : tail \in {CrossUp, TouchLast, TouchPrev}}
    \cup {CloseColumn(NumDates, tail, TRUE) : tail \in {CrossUp, Flat, Down}}

VolumeColumns ==
    {Column(<< >>, TRUE), Column(Volumes(VolWindow - 1, 58), TRUE),
     Column(Volumes(NumDates - 1, 58), FALSE)}
    \cup {Column(Volumes(NumDates, w), TRUE) : w \in {37, 57, 58}}

\* Series whose percentages are exactly halfway between two hundredths:
\* a day change of -58.125 (160 to 67), and a last price 36.875 percent
\* above the mean 3200 / 60 of 59 closes of 53 and one of 73.
HalfwayPairs ==
    {<<CloseColumn(MinBars, <<160, 67>>, TRUE), Column(Volumes(NumDates, 58), TRUE)>>,
     <<Column(Level(MinBars, 53, 73), TRUE), Column(Volumes(NumDates, 37), TRUE)>>}

\* Series that divide by zero.  AllZero: 60 closes of 0, the mean of 60 is
\* 0 and both quotients are 0 / 0.  ZeroMean: 59 closes of -1 and one of 59,
\* the mean of 60 is 0 under a last price of 59.  The tails of Closes:
\* <<0, 12>> divides the last close by a previous close of 0, <<0, 0>> is
\* 0 / 0 for the day change over a positive mean, <<12, 0>> is a last price
\* of 0 after a positive one.
AllZero == Column(Level(MinBars, 0, 0), TRUE)
ZeroMean == Column(Level(MinBars, -1, 59), TRUE)
ZeroPairs ==
    {<<c, Column(Volumes(NumDates, 58), TRUE)>> :
        c \in {AllZero, ZeroMean}
               \cup {CloseColumn(MinBars, tail, TRUE) : tail \in {<<0, 12>>, <<0, 0>>, <<12, 0>>}}}

\* The (Close, Volume) column pairs of one ticker in a frame of n tickers:
\* every combination for one or two tickers, a selection for three; the
\* halfway series in a frame of one ticker, the series that divide by zero
\* in a frame of one or two, the one of zeros alone in a frame of three.
ColumnPairs(n) ==
    IF n = 1 THEN (CloseColumns \X VolumeColumns) \cup HalfwayPairs \cup ZeroPairs
    ELSE IF n = 2 THEN (CloseColumns \X VolumeColumns) \cup ZeroPairs
    ELSE {<<AllZero, Column(Volumes(NumDates, 58), TRUE)>>,
          <<CloseColumn(MinBars, CrossUp, TRUE), Column(Volumes(NumDates, 58), TRUE)>>,
          <<CloseColumn(MinBars, CrossUp, TRUE), Column(Volumes(NumDates, 37), TRUE)>>,
          <<CloseColumn(MinBars, TouchLast, TRUE), Column(Volumes(NumDates, 58), TRUE)>>,
          <<CloseColumn(NumDates, Flat, TRUE), Column(Volumes(NumDates, 57), TRUE)>>,
          <<CloseColumn(NumDates, Down, TRUE), Column(Volumes(VolWindow - 1, 58), TRUE)>>,
          <<CloseColumn(MinBars - 1, CrossUp, TRUE), Column(Volumes(NumDates, 58), TRUE)>>,
          <<CloseColumn(MinBars, CrossUp, TRUE), Column(<< >>, TRUE)>>}

\* The ticker lists tickers.txt may hold.
TickerFiles ==
    {<<"2330.TW">>, <<"2330.TW", "1101.TW">>, <<"2454.TW", "1101.TW", "2330.TW">>}

Range(s) == {s[i] : i \in 1..Len(s)}

Orderings(S) ==
    {p \in [1..Cardinality(S) -> S] : \A i, j \in 1..Cardinality(S) : p[i] = p[j] => i = j}

NoFrame == [is_multi |-> FALSE, columns |-> << >>, Close |-> << >>, Volume |-> << >>]

\* The frames yf.download may return for the requested tickers: the columns
\* in any order, and for a single ticker possibly a flat frame.
Frames(req) ==
    {[is_multi |-> TRUE, columns |-> cols,
      Close |-> [t \in Range(req) |-> p[t][1]],
      Volume |-> [t \in Range(req) |-> p[t][2]]] :
        cols \in Orderings(Range(req)),
        p \in [Range(req) -> ColumnPairs(Len(req))]}
    \cup (IF Len(req) = 1
          THEN {[is_multi |-> FALSE, columns |-> << >>,
                 Close |-> [t \in {"SINGLE"} |-> p[1]],
                 Volume |-> [t \in {"SINGLE"} |-> p[2]]] : p \in ColumnPairs(1)}
          ELSE {})

(***************************************************************************)
(* compute_signals                                                         *)
(***************************************************************************)
\* universe = [c[0] for c in data.columns if c[1] == 'Close'], or ['SINGLE']
Universe(frame) == IF frame.is_multi THEN frame.columns ELSE <<"SINGLE">>

\* sorted(set(universe)): the distinct names in ascending order.
RECURSIVE SortedFrom(_, _)
SortedFrom(S, i) ==
    IF i > Len(Names) THEN << >>
    ELSE (IF Names[i] \in S THEN <<Names[i]>> ELSE << >>) \o SortedFrom(S, i + 1)

\* Variant: the universe iterated in column order.
SortedSetUnsorted(u) == u

SortedSet(u) == SortedFrom(Range(u), 1)

\* golden_cross = ma5.iloc[-2] < ma20.iloc[-2] and ma5.iloc[-1] > ma20.iloc[-1]
golden_cross(close) ==
    LET ma5  == rolling_mean(close, ShortWindow)
        ma20 == rolling_mean(close, MidWindow)
    IN  /\ Lt(ILoc(ma5, 2), ILoc(ma20, 2))
        /\ Gt(ILoc(ma5, 1), ILoc(ma20, 1))

\* vol_spike = vol.iloc[-1] > 1.5 * vol20.iloc[-1] if not isnan(vol20.iloc[-1]) else 0
vol_spike(vol) ==
    LET vol20 == rolling_mean(vol, VolWindow)
        m     == ILoc(vol20, 1)
    IN  IF IsNaN(m) THEN FALSE
        ELSE ILoc(vol, 1).value * SpikeDen * m[1].den > SpikeNum * m[1].num

\* round((x / y - 1) * 100, 2) for the close x and the mean y = y.num / y.den
\* (y.den > 0), or the value itself where round() has nothing to round:
\* NaN when x / y is 0 / 0, and an infinity of the sign of x when y alone is
\* 0, since (inf - 1) * 100 is inf and round(inf, 2) is inf.
Percent(x, y) ==
    LET s == IF y.num < 0 THEN -1 ELSE 1
        v == Only({Only({FPercent(q) : q \in {FDiv(FromInt(x), mean)}}) :
                     mean \in {FDiv(FromInt(y.num), FromInt(y.den))}})
    IN  IF y.num = 0
        THEN IF x = 0 THEN NaN ELSE Inf(x > 0)
        ELSE Some(Round(v, s * (x * y.den - y.num) * 100, s * y.num, PctDigits))

\* Variant: the value tested for truth instead of NaN, so that 0.0 is None.
above_ma60ZeroIsNone(close) ==
    LET ma60  == rolling_mean(close, LongWindow)
        m     == ILoc(ma60, 1)
        price == ILoc(close, 1).value
        value == IF ~IsNaN(m) THEN Percent(price, m[1]) ELSE NaN
    IN  IF ~IsNaN(value) /\ value # Some(0) THEN value ELSE None

\* above_ma60 = (price / ma60.iloc[-1] - 1) * 100 if not isnan(ma60.iloc[-1]) else nan
\* "above_ma60_%": round(above_ma60, 2) if not isnan(above_ma60) else None
above_ma60(close) ==
    LET ma60  == rolling_mean(close, LongWindow)
        m     == ILoc(ma60, 1)
        price == ILoc(close, 1).value
        value == IF ~IsNaN(m) THEN Percent(price, m[1]) ELSE NaN
    IN  IF ~IsNaN(value) THEN value ELSE None

\* dchg = (close.iloc[-1] / close.iloc[-2] - 1) * 100 if len(close) > 1 else nan
\* "d_change_%": round(dchg, 2) if not isnan(dchg) else None
d_change(close) ==
    LET dchg == IF Len(close) > 1
                THEN Percent(ILoc(close, 1).value,
                             [num |-> ILoc(close, 2).value, den |-> 1])
                ELSE NaN
    IN  IF ~IsNaN(dchg) THEN dchg ELSE None

\* The dict appended to rows.
MakeRow(t, close, vol) ==
    [ticker            |-> t,
     date              |-> ILoc(close, 1).date,
     price             |-> Round(FromInt(ILoc(close, 1).value),
                                 ILoc(close, 1).value, 1, PriceDigits),
     d_change          |-> d_change(close),
     golden_cross_5_20 |-> golden_cross(close),
     vol_spike_vs_20d  |-> vol_spike(vol),
     above_ma60        |-> above_ma60(close)]

\* Variant: the gate written as len(close) <= 60.
TooShortOffByOne(close) == Len(close) <= MinBars

\* len(close) < 60: the ticker is skipped.
TooShort(close) == Len(close) < MinBars

\* vol20.iloc[-1] of an empty series raises IndexError, which the loop's
\* except clause logs.
Raises(close, vol) == Len(vol) = 0

\* Variant: an exception in one iteration loses the rows built so far.
rows_afterLosingRows(rs, t, close, vol) ==
    IF TooShort(close) THEN rs
    ELSE IF Raises(close, vol) THEN << >>
    ELSE Append(rs, MakeRow(t, close, vol))

\* One iteration of the loop over the universe: the rows after ticker t.
\* A short series is skipped (continue), an exception is caught and logged,
\* and otherwise the record of t is appended.
rows_after(rs, t, close, vol) ==
    IF TooShort(close) THEN rs
    ELSE IF Raises(close, vol) THEN rs
    ELSE Append(rs, MakeRow(t, close, vol))

\* Variant: a table of one record taken for empty.
EmptyOrSingle(rs) == Len(rs) <= 1

\* df.empty
Empty(rs) == Len(rs) = 0

\* a > b for two floats, neither NaN: inf above and -inf below every other.
Greater(a, b) ==
    IF IsInf(a) THEN a[1] > 0 /\ a # b
    ELSE IF IsInf(b) THEN b[1] < 0
    ELSE a[1] > b[1]

\* Whether r1 sorts strictly before r2 on one descending key with
\* na_position='last': a larger value first, None after every value.
BoolBefore(a, b) == a /\ ~b
NumBefore(a, b) == /\ a # None
                   /\ (b = None \/ Greater(a, b))

\* Variant: the first two sort keys in the other order.
BeforeSpikeFirst(r1, r2) ==
    \/ BoolBefore(r1.vol_spike_vs_20d, r2.vol_spike_vs_20d)
    \/ /\ r1.vol_spike_vs_20d = r2.vol_spike_vs_20d
       /\ \/ BoolBefore(r1.golden_cross_5_20, r2.golden_cross_5_20)
          \/ /\ r1.golden_cross_5_20 = r2.golden_cross_5_20
             /\ \/ NumBefore(r1.above_ma60, r2.above_ma60)
                \/ /\ r1.above_ma60 = r2.above_ma60
                   /\ NumBefore(r1.d_change, r2.d_change)

\* df.sort_values([golden_cross_5_20, vol_spike_vs_20d, above_ma60_%, d_change_%],
\*                ascending=[False, False, False, False]): r1 strictly before r2.
Before(r1, r2) ==
    \/ BoolBefore(r1.golden_cross_5_20, r2.golden_cross_5_20)
    \/ /\ r1.golden_cross_5_20 = r2.golden_cross_5_20
       /\ \/ BoolBefore(r1.vol_spike_vs_20d, r2.vol_spike_vs_20d)
          \/ /\ r1.vol_spike_vs_20d = r2.vol_spike_vs_20d
             /\ \/ NumBefore(r1.above_ma60, r2.above_ma60)
                \/ /\ r1.above_ma60 = r2.above_ma60
                   /\ NumBefore(r1.d_change, r2.d_change)

\* The stable sort of a multi-key sort_values: a row goes behind every row
\* already placed that it does not sort strictly before.
RECURSIVE InsertRow(_, _)
InsertRow(sorted, r) ==
    IF sorted = << >> THEN <<r>>
    ELSE LET last == sorted[Len(sorted)]
         IN  IF Before(r, last)
             THEN InsertRow(SubSeq(sorted, 1, Len(sorted) - 1), r) \o <<last>>
             ELSE sorted \o <<r>>

RECURSIVE SortFrom(_, _, _)
SortFrom(rs, i, sorted) ==
    IF i > Len(rs) THEN sorted ELSE SortFrom(rs, i + 1, InsertRow(sorted, rs[i]))

sort_values(rs) == SortFrom(rs, 1, << >>)

(***************************************************************************)
(* State                                                                   *)
(***************************************************************************)
VARIABLES
    pc,        \* the statement main() is at
    tickers,   \* load_tickers' result
    data,      \* fetch_prices' result
    universe,  \* compute_signals: sorted(set(universe))
    idx,       \* compute_signals: position of the loop in universe
    rows,      \* compute_signals: the records appended so far
    skipped,   \* compute_signals: tickers logged as skipped or failed
    df,        \* the ranked table compute_signals returned
    error,     \* the exception main() caught, "" while none
    files,     \* files written under ./output
    mails      \* the calls of send_email: subject and outcome

vars == <<pc, tickers, data, universe, idx, rows, skipped, df, error, files, mails>>

Init ==
    /\ pc = "load_tickers"
    /\ tickers = << >>
    /\ data = NoFrame
    /\ universe = << >>
    /\ idx = 1
    /\ rows = << >>
    /\ skipped = << >>
    /\ df = << >>
    /\ error = ""
    /\ files = {}
    /\ mails = << >>

\* An exception raised inside main()'s try block.
Raise(e) ==
    /\ pc' = "except"
    /\ error' = e

(***************************************************************************)
(* load_tickers, fetch_prices                                              *)
(***************************************************************************)
load_tickers ==
    /\ pc = "load_tickers"
    /\ \/ /\ Raise("FileNotFoundError")
          /\ UNCHANGED tickers
       \/ /\ Raise("ValueError")
          /\ UNCHANGED tickers
       \/ /\ tickers' \in TickerFiles
          /\ pc' = "fetch_prices"
          /\ UNCHANGED error
    /\ UNCHANGED <<data, universe, idx, rows, skipped, df, files, mails>>

fetch_prices ==
    /\ pc = "fetch_prices"
    /\ \/ /\ Raise("RuntimeError: no data")
          /\ UNCHANGED data
       \/ /\ data' \in Frames(tickers)
          /\ pc' = "compute_signals"
          /\ UNCHANGED error
    /\ UNCHANGED <<tickers, universe, idx, rows, skipped, df, files, mails>>

(***************************************************************************)
(* compute_signals: entry, one loop iteration, and the ranking             *)
(***************************************************************************)
compute_signals ==
    /\ pc = "compute_signals"
    /\ universe' = SortedSet(Universe(data))
    /\ idx' = 1
    /\ rows' = << >>
    /\ pc' = "for_t"
    /\ UNCHANGED <<tickers, data, skipped, df, error, files, mails>>

for_t ==
    /\ pc = "for_t"
    /\ idx <= Len(universe)
    /\ LET t     == universe[idx]
           close == dropna(data.Close[t])
           vol   == dropna(data.Volume[t])
       IN  /\ rows' = rows_after(rows, t, close, vol)
           /\ \/ /\ TooShort(close)
                 /\ skipped' = Append(skipped, [ticker |-> t, why |-> "short"])
              \/ /\ ~TooShort(close)
                 /\ Raises(close, vol)
                 /\ skipped' = Append(skipped, [ticker |-> t, why |-> "failed"])
              \/ /\ ~TooShort(close)
                 /\ ~Raises(close, vol)
                 /\ skipped' = skipped
    /\ idx' = idx + 1
    /\ UNCHANGED <<pc, tickers, data, universe, df, error, files, mails>>

rank ==
    /\ pc = "for_t"
    /\ idx > Len(universe)
    /\ \/ /\ Empty(rows)
          /\ Raise("RuntimeError: empty")
          /\ UNCHANGED df
       \/ /\ ~Empty(rows)
          /\ df' = sort_values(rows)
          /\ pc' = "export_reports"
          /\ UNCHANGED error
    /\ UNCHANGED <<tickers, data, universe, idx, rows, skipped, files, mails>>

(***************************************************************************)
(* export_reports, send_email and main()'s except clause                   *)
(***************************************************************************)
export_reports ==
    /\ pc = "export_reports"
    /\ \/ /\ files' = files \cup {"scan.csv", "scan.html"}
          /\ pc' = "send_email"
          /\ UNCHANGED error
       \/ /\ files' \in {files, files \cup {"scan.csv"},
                        files \cup {"scan.csv", "scan.html"}}
          /\ Raise("OSError")
    /\ UNCHANGED <<tickers, data, universe, idx, rows, skipped, df, mails>>

\* send_email returns False without sending when the SMTP settings are
\* incomplete, returns True after sending, or raises when the server fails.
send_email ==
    /\ pc = "send_email"
    /\ \/ /\ \E o \in {"skipped", "sent"} :
                mails' = Append(mails, [subject |-> "scan", outcome |-> o])
          /\ pc' = "done"
          /\ UNCHANGED error
       \/ /\ mails' = Append(mails, [subject |-> "scan", outcome |-> "raised"])
          /\ Raise("SMTPException")
    /\ UNCHANGED <<tickers, data, universe, idx, rows, skipped, df, files>>

\* The except clause writes output/error.txt outside any try: when
\* os.makedirs, open or write raises there, the exception leaves main().
except ==
    /\ pc = "except"
    /\ \/ /\ files' = files \cup {"error.txt"}
          /\ pc' = "send_error_email"
       \/ /\ files' \in {files, files \cup {"error.txt"}}
          /\ pc' = "crashed"
    /\ UNCHANGED <<tickers, data, universe, idx, rows, skipped, df, error, mails>>

send_error_email ==
    /\ pc = "send_error_email"
    /\ \/ /\ \E o \in {"skipped", "sent"} :
                mails' = Append(mails, [subject |-> "failure", outcome |-> o])
          /\ pc' = "done"
       \/ /\ mails' = Append(mails, [subject |-> "failure", outcome |-> "raised"])
          /\ pc' = "crashed"
    /\ UNCHANGED <<tickers, data, universe, idx, rows, skipped, df, error, files>>

Next ==
    \/ load_tickers
    \/ fetch_prices
    \/ compute_signals
    \/ for_t
    \/ rank
    \/ export_reports
    \/ send_email
    \/ except
    \/ send_error_email

Spec == Init /\ [][Next]_vars

(***************************************************************************)
(* Reference definitions for the properties, taken from the frame itself.  *)
(***************************************************************************)
\* The dates on which a column holds a value.
Present(col) == {d \in Dates : col[d] # << >>}

\* The values of a column, in date order, gaps left out.
Obs(col) ==
    LET cells == SelectSeq([d \in 1..NumDates |-> col[d]], LAMBDA c : c # << >>)
    IN  [i \in 1..Len(cells) |-> cells[i][1]]

\* The sum of the 5, 20 and 60 observations ending at position i.
Sum5(s, i) == s[i] + s[i - 1] + s[i - 2] + s[i - 3] + s[i - 4]
Sum20(s, i) == Sum5(s, i) + Sum5(s, i - 5) + Sum5(s, i - 10) + Sum5(s, i - 15)
Sum60(s, i) == Sum20(s, i) + Sum20(s, i - 20) + Sum20(s, i - 40)
WindowSum(s, i, n) ==
    CASE n = 5 -> Sum5(s, i)
      [] n = 20 -> Sum20(s, i)
      [] n = 60 -> Sum60(s, i)

CloseCount(t) == Cardinality(Present(data.Close[t]))
VolumeCount(t) == Cardinality(Present(data.Volume[t]))
\* Clean observations: dates with both Close and Volume present.
CleanCount(t) == Cardinality(Present(data.Close[t]) \cap Present(data.Volume[t]))

\* The tickers the loop has already dealt with.
Handled == {universe[i] : i \in 1..(idx - 1)}
InLoop == pc = "for_t"
LoopOver == pc = "for_t" /\ idx > Len(universe)
HasRow(t) == \E i \in 1..Len(rows) : rows[i].ticker = t
RowOf(t) == rows[CHOOSE i \in 1..Len(rows) : rows[i].ticker = t]

\* Whether n is an integer nearest to a / b (b > 0): at most one half away.
IsNearest(n, a, b) == 2 * Abs(a - n * b) <= b

(***************************************************************************)
(* C1  Minimum-history gate.                                               *)
(***************************************************************************)
\* C1 as stated: a handled ticker has a record exactly when it has at least
\* 60 clean observations (dates with both Close and Volume present).
C1_GateOnCleanObservations ==
    InLoop => \A t \in Handled : HasRow(t) <=> CleanCount(t) >= 60

\* C1 amended: a handled ticker with fewer than 60 dates on which Close is
\* present has no record, whatever its Volume column holds, and a handled
\* ticker with at least 60 clean observations has a record.
C1_GateOnClose ==
    InLoop => \A t \in Handled :
        /\ CloseCount(t) < 60 => ~HasRow(t)
        /\ CleanCount(t) >= 60 => HasRow(t)

\* Both boundary cases in one run: 59 closes excluded, exactly 60 clean
\* observations included.
C1_Witness ==
    /\ LoopOver
    /\ \E t1, t2 \in Handled :
        /\ CloseCount(t1) = 59 /\ ~HasRow(t1)
        /\ CleanCount(t2) = 60 /\ HasRow(t2)

(***************************************************************************)
(* C2  Ranking order.                                                      *)
(***************************************************************************)
\* A present numeric field as a pair compared lexicographically: the sign
\* of an infinity (0 for a finite value), then the finite value.
InfPart(c) == IF Len(c) = 2 THEN c[1] ELSE 0
FinPart(c) == IF Len(c) = 2 THEN 0 ELSE c[1]
\* a ranks strictly above b: a present and b absent, or both present and
\* a the larger.
NumGT(a, b) ==
    /\ a # << >>
    /\ \/ b = << >>
       \/ InfPart(a) > InfPart(b)
       \/ InfPart(a) = InfPart(b) /\ FinPart(a) > FinPart(b)
KeyGE(r1, r2) ==
    LET g1 == r1.golden_cross_5_20  g2 == r2.golden_cross_5_20
        v1 == r1.vol_spike_vs_20d   v2 == r2.vol_spike_vs_20d
    IN  \/ g1 /\ ~g2
        \/ /\ g1 = g2
           /\ \/ v1 /\ ~v2
              \/ /\ v1 = v2
                 /\ \/ NumGT(r1.above_ma60, r2.above_ma60)
                    \/ /\ r1.above_ma60 = r2.above_ma60
                       /\ \/ NumGT(r1.d_change, r2.d_change)
                          \/ r1.d_change = r2.d_change

\* C2: the returned table holds exactly the records built, and for any r1
\* before r2 in it the key tuple of r1 is lexicographically >= that of r2
\* (true before false, a larger number before a smaller one, an absent
\* numeric field after every present value of that field); a record with a
\* golden cross is never below one without.
C2_RankedDescending ==
    pc = "export_reports" =>
        /\ Len(df) = Len(rows)
        /\ Range(df) = Range(rows)
        /\ \A i, j \in 1..Len(df) :
              i < j => /\ KeyGE(df[i], df[j])
                       /\ df[j].golden_cross_5_20 => df[i].golden_cross_5_20
                       /\ (/\ df[i].golden_cross_5_20 = df[j].golden_cross_5_20
                           /\ df[i].vol_spike_vs_20d = df[j].vol_spike_vs_20d
                           /\ df[i].above_ma60 = << >>) => df[j].above_ma60 = << >>
                       /\ (/\ df[i].golden_cross_5_20 = df[j].golden_cross_5_20
                           /\ df[i].vol_spike_vs_20d = df[j].vol_spike_vs_20d
                           /\ df[i].above_ma60 = df[j].above_ma60
                           /\ df[i].d_change = << >>) => df[j].d_change = << >>

\* A table of three: a golden-cross record without a volume spike ranked
\* above a record with a volume spike and no cross, and below that one a
\* record equal to it on the first two keys whose above_ma60_% is absent,
\* although its ticker was iterated first.
C2_Witness ==
    /\ pc = "export_reports"
    /\ \E i, j, k \in 1..Len(df) :
        /\ i < j /\ j < k
        /\ df[i].golden_cross_5_20 /\ ~df[i].vol_spike_vs_20d
        /\ ~df[j].golden_cross_5_20 /\ df[j].vol_spike_vs_20d
        /\ ~df[k].golden_cross_5_20 /\ df[k].vol_spike_vs_20d
        /\ df[j].above_ma60 # << >> /\ df[k].above_ma60 = << >>
        /\ Rank(df[k].ticker) < Rank(df[j].ticker)
        /\ Rank(df[j].ticker) < Rank(df[i].ticker)

(***************************************************************************)
(* C3  Empty result.                                                       *)
(***************************************************************************)
Ranked ==
    /\ pc \notin {"load_tickers", "fetch_prices", "compute_signals", "for_t"}
    /\ error \notin {"FileNotFoundError", "ValueError", "RuntimeError: no data"}

\* C3: once compute_signals has ended, it has raised the empty-result error
\* if and only if no ticker produced a record, and then it returned no
\* table; when it returned, the table holds at least one record.
C3_EmptyResult ==
    Ranked =>
        /\ (error = "RuntimeError: empty") <=> (rows = << >>)
        /\ error = "RuntimeError: empty" => df = << >>
        /\ error # "RuntimeError: empty" => Len(df) >= 1

\* A run over two tickers, neither of which produced a record.
C3_Witness ==
    /\ pc = "except"
    /\ error = "RuntimeError: empty"
    /\ Len(universe) = 2
    /\ rows = << >>

(***************************************************************************)
(* C4  Per-ticker fault isolation.                                         *)
(***************************************************************************)
\* A ticker whose record can be derived: enough closes, and a last volume.
Derivable(t) == CloseCount(t) >= 60 /\ VolumeCount(t) >= 1

RECURSIVE WithoutFaulty(_, _)
\* The rows of a run over the first n tickers of the universe from which
\* the tickers without a derivable record have been taken out.
WithoutFaulty(u, n) ==
    IF n = 0 THEN << >>
    ELSE LET t == u[n]
         IN  IF Derivable(t)
             THEN rows_after(WithoutFaulty(u, n - 1), t,
                             dropna(data.Close[t]), dropna(data.Volume[t]))
             ELSE WithoutFaulty(u, n - 1)

\* C4: while the loop runs no exception has escaped; the rows are those of
\* a run without the short and the faulty tickers; and the empty-result
\* error is raised only when no ticker of the universe is derivable.
C4_FaultIsolation ==
    /\ InLoop => /\ error = ""
                 /\ rows = WithoutFaulty(universe, idx - 1)
    /\ (Ranked /\ error = "RuntimeError: empty") =>
          \A t \in Range(universe) : ~Derivable(t)

\* A ticker failed (60 closes, no volume at all) after one record had been
\* built and before another was.
C4_Witness ==
    /\ LoopOver
    /\ Len(rows) = 2
    /\ \E i \in 1..Len(skipped) :
        /\ skipped[i].why = "failed"
        /\ Rank(rows[1].ticker) < Rank(skipped[i].ticker)
        /\ Rank(skipped[i].ticker) < Rank(rows[2].ticker)

(***************************************************************************)
(* C5  Golden cross.                                                       *)
(***************************************************************************)
\* mean of 5 < mean of 20 at position i, and > likewise, on exact sums
Ma5Below20(s, i) == WindowSum(s, i, 5) * 20 < WindowSum(s, i, 20) * 5
Ma5Above20(s, i) == WindowSum(s, i, 5) * 20 > WindowSum(s, i, 20) * 5
Ma5Equals20(s, i) == WindowSum(s, i, 5) * 20 = WindowSum(s, i, 20) * 5

\* C5: in every record golden_cross_5_20 is a boolean, true exactly when
\* MA5 < MA20 at the second-to-last observation and MA5 > MA20 at the last.
C5_GoldenCross ==
    InLoop => \A i \in 1..Len(rows) :
        LET s == Obs(data.Close[rows[i].ticker])
        IN  /\ rows[i].golden_cross_5_20 \in BOOLEAN
            /\ rows[i].golden_cross_5_20 <=>
                  (Ma5Below20(s, Len(s) - 1) /\ Ma5Above20(s, Len(s)))

\* One record with a cross, and one without because MA5 only touches MA20
\* at the last observation after being below it.
C5_Witness ==
    /\ LoopOver
    /\ \E i, j \in 1..Len(rows) :
        /\ rows[i].golden_cross_5_20
        /\ ~rows[j].golden_cross_5_20
        /\ LET s == Obs(data.Close[rows[j].ticker])
           IN  Ma5Below20(s, Len(s) - 1) /\ Ma5Equals20(s, Len(s))

(***************************************************************************)
(* C6  Volume spike.                                                       *)
(***************************************************************************)
\* The date of the last Close observation (asOfDate).
AsOfDate(t) == CHOOSE d \in Present(data.Close[t]) :
                  \A e \in Present(data.Close[t]) : e <= d

\* Volume[last] > 1.5 * VolumeMA20[last] on the volumes up to asOfDate;
\* false when fewer than 20 of them exist.
SpikeAtAsOfDate(t) ==
    LET v == Obs([d \in Dates |-> IF d <= AsOfDate(t) THEN data.Volume[t][d] ELSE << >>])
    IN  /\ Len(v) >= 20
        /\ v[Len(v)] * 2 * 20 > 3 * WindowSum(v, Len(v), 20)

\* C6 as stated: every handled ticker that passes the minimum-history gate
\* (60 closes) has a record; its vol_spike_vs_20d is false when fewer than
\* 20 volume values exist, none included, and otherwise, the volume of
\* asOfDate being present, true exactly when that volume is strictly above
\* 1.5 times the mean of the 20 volumes ending there.
C6_VolumeSpike ==
    InLoop => \A t \in Handled :
        CloseCount(t) >= 60 =>
            /\ HasRow(t)
            /\ VolumeCount(t) < 20 => ~RowOf(t).vol_spike_vs_20d
            /\ (VolumeCount(t) >= 20 /\ AsOfDate(t) \in Present(data.Volume[t])) =>
                  (RowOf(t).vol_spike_vs_20d <=> SpikeAtAsOfDate(t))

(***************************************************************************)
(* C7  Long-MA distance presence.                                          *)
(***************************************************************************)
\* C7 as stated: in every record above_ma60_% is None exactly when MA60 at
\* the last position is undefined (fewer than 60 observations), and
\* otherwise it is (lastPrice / MA60[last] - 1) * 100 rounded to 2 decimals,
\* that is a hundredth nearest to the exact quotient, a value of zero
\* included.
C7_AboveLongMA ==
    InLoop => \A i \in 1..Len(rows) :
        LET s   == Obs(data.Close[rows[i].ticker])
            n   == Len(s)
            sum == WindowSum(s, n, 60)
        IN  /\ rows[i].above_ma60 = << >> <=> n < 60
            /\ n >= 60 =>
                  /\ rows[i].above_ma60 # << >>
                  /\ IsNearest(rows[i].above_ma60[1], (s[n] * 60 - sum) * 100 * 100, sum)

\* C7 amended: in every record above_ma60_% is None exactly when MA60 at the
\* last position is undefined (fewer than 60 observations) or the quotient
\* lastPrice / MA60[last] is not a number (MA60 and the last price both 0).
\* Otherwise it is present: the infinity of the sign of the last price when
\* MA60 alone is 0, and else a hundredth nearest to the exact value of
\* (lastPrice / MA60[last] - 1) * 100, a value of zero included.
C7_AboveLongMAOrNotANumber ==
    InLoop => \A i \in 1..Len(rows) :
        LET s   == Obs(data.Close[rows[i].ticker])
            n   == Len(s)
            sum == WindowSum(s, n, 60)
        IN  /\ rows[i].above_ma60 = << >> <=> (n < 60 \/ (sum = 0 /\ s[n] = 0))
            /\ (n >= 60 /\ sum = 0 /\ s[n] > 0) => rows[i].above_ma60 = <<1, 0>>
            /\ (n >= 60 /\ sum = 0 /\ s[n] < 0) => rows[i].above_ma60 = <<-1, 0>>
            /\ (n >= 60 /\ sum > 0) =>
                  /\ Len(rows[i].above_ma60) = 1
                  /\ IsNearest(rows[i].above_ma60[1], (s[n] * 60 - sum) * 100 * 100, sum)
            /\ (n >= 60 /\ sum < 0) =>
                  /\ Len(rows[i].above_ma60) = 1
                  /\ IsNearest(rows[i].above_ma60[1], (sum - s[n] * 60) * 100 * 100, 0 - sum)

\* Two records, both of tickers with 60 observations and so with MA60
\* defined: one of 60 closes of 0, whose distance is absent, and one whose
\* distance is present and zero.
C7_Witness ==
    /\ LoopOver
    /\ \E i, j \in 1..Len(rows) :
        /\ Len(Obs(data.Close[rows[i].ticker])) = 60
        /\ WindowSum(Obs(data.Close[rows[i].ticker]), 60, 60) = 0
        /\ rows[i].above_ma60 = << >>
        /\ Len(Obs(data.Close[rows[j].ticker])) >= 60
        /\ rows[j].above_ma60 = <<0>>

(***************************************************************************)
(* C8  Deterministic ranking with stable ties.                             *)
(***************************************************************************)
SameKeys(r1, r2) ==
    /\ r1.golden_cross_5_20 = r2.golden_cross_5_20
    /\ r1.vol_spike_vs_20d = r2.vol_spike_vs_20d
    /\ r1.above_ma60 = r2.above_ma60
    /\ r1.d_change = r2.d_change

\* C8: whatever the order of the columns in the frame, the records are built
\* in ascending ticker order, and records of the returned table that are
\* equal on all four keys stand in ascending ticker order; with C2 this
\* fixes the returned sequence as a function of the records alone.
C8_StableTies ==
    /\ InLoop =>
          \A i, j \in 1..Len(rows) :
              i < j => Rank(rows[i].ticker) < Rank(rows[j].ticker)
    /\ pc = "export_reports" =>
          \A i, j \in 1..Len(df) :
              (i < j /\ SameKeys(df[i], df[j])) =>
                  Rank(df[i].ticker) < Rank(df[j].ticker)

\* Three records, two of them tied on all keys and ranked above the third,
\* from a frame whose columns come in descending ticker order.
C8_Witness ==
    /\ pc = "export_reports"
    /\ Len(df) = 3
    /\ Rank(data.columns[1]) > Rank(data.columns[2])
    /\ Rank(data.columns[2]) > Rank(data.columns[3])
    /\ SameKeys(df[1], df[2])
    /\ ~SameKeys(df[2], df[3])

(***************************************************************************)
(* C9  Trailing moving averages.                                           *)
(***************************************************************************)
\* rolling(n).mean() of a column agrees with the definition at every position.
FullWindowsOnly(col, n) ==
    LET s == Obs(col)
        r == rolling_mean(dropna(col), n)
    IN  /\ Len(r) = Len(s)
        /\ \A i \in 1..Len(s) :
              IF i < n THEN r[i] = << >>
              ELSE /\ r[i] # << >>
                   /\ r[i][1].num * n = WindowSum(s, i, n) * r[i][1].den

\* C9: for the ticker the loop is at, the averages over 5, 20 and 60 closes
\* and over 20 volumes are undefined at a position with fewer observations
\* than the window at or before it, and otherwise equal the mean of exactly
\* the observations of the window ending at the position.
C9_MovingAverages ==
    (InLoop /\ idx <= Len(universe)) =>
        LET t == universe[idx]
        IN  /\ FullWindowsOnly(data.Close[t], 5)
            /\ FullWindowsOnly(data.Close[t], 20)
            /\ FullWindowsOnly(data.Close[t], 60)
            /\ FullWindowsOnly(data.Volume[t], 20)

\* The loop is at a ticker with more than 60 closes, so that the 60-window
\* has moved past the first close, and with fewer than 20 volumes.
C9_Witness ==
    /\ InLoop
    /\ idx <= Len(universe)
    /\ CloseCount(universe[idx]) > 60
    /\ VolumeCount(universe[idx]) \in 1..19

(***************************************************************************)
(* C10  Run ordering in main.                                              *)
(***************************************************************************)
Attempted(subject) == \E i \in 1..Len(mails) : mails[i].subject = subject
EarlyErrors ==
    {"FileNotFoundError", "ValueError", "RuntimeError: no data", "RuntimeError: empty"}

\* C10 as stated: report files exist only once compute_signals has returned
\* a table; the success mail is attempted only after the export; a run in
\* which load_tickers, fetch_prices or compute_signals raised has no report
\* file and no success mail; the failure mail is attempted only after the
\* error report is written, and a failed run has done both when main ends.
\* The last part fails when the except clause itself raises while writing
\* output/error.txt: the exception leaves main() and no failure mail is
\* attempted.
C10_RunOrdering ==
    /\ (files \cap {"scan.csv", "scan.html"}) # {} => Len(df) >= 1
    /\ Attempted("scan") => {"scan.csv", "scan.html"} \subseteq files
    /\ error \in EarlyErrors =>
          /\ (files \cap {"scan.csv", "scan.html"}) = {}
          /\ ~Attempted("scan")
          /\ df = << >>
    /\ Attempted("failure") => (error # "" /\ "error.txt" \in files)
    /\ "error.txt" \in files => error # ""
    /\ (error # "" /\ pc \in {"done", "crashed"}) =>
          ("error.txt" \in files /\ Attempted("failure"))
    /\ (error = "" /\ pc = "done") => Attempted("scan")

====
